---- MODULE Spec2Model ----
(***************************************************************************)
(* State-machine model of src/app_rewire_cs_required.py, the REWIRE        *)
(* compound-semiconductor labeling app.  The script is re-executed from    *)
(* top to bottom on every user event; the session state (df, view_idx,     *)
(* filter_unlabeled, staged) survives between executions.  One action of   *)
(* the model is one user event together with every script run it causes    *)
(* (a button handler ends in st.rerun(), so its action includes the next   *)
(* run).                                                                   *)
(***************************************************************************)
EXTENDS Integers, Sequences, FiniteSets, TLC

\* ---------------------------------------------------------------- bounds
\* Largest number of rows of an uploaded file that has no order column.
MaxRows == 2

\* ------------------------------------------------------------- constants
\* Python's None and pandas' NA.  An optional value is a sequence of length
\* at most one: None is the empty one.
None == <<>>
Some(x) == <<x>>
NA == "<NA>"

\* The ten hard-coded tag columns, numbered in the order of TAG_COLS.
SUPPLY_CHAIN_COLS == 1..6
FUNCTIONAL_COLS == 7..10
TAG_COLS == SUPPLY_CHAIN_COLS \cup FUNCTIONAL_COLS

\* The options of the cs_choice radio.
RadioOptions == {"(select)", "Y", "N"}

\* ------------------------------------------------------ operator's inputs
\* The texts the operator leaves in the notes area.
NoteTexts == {"", "a"}
\* The check boxes the operator clicks (supply_chain_Substrate).
ToggledTags == {1}

\* A row of an uploaded table.  company stands for the display columns: it is
\* the row's position in the file.  order is read only when the file has the
\* __row_order column.
FreshRow(i, o) ==
    [company |-> i, order |-> o, flag |-> NA,
     tags |-> [c \in TAG_COLS |-> 0], notes |-> NA]

\* A CSV file of n rows without an order column.
PlainFile(n) ==
    [name |-> "data.csv", parses |-> TRUE, sheet_names |-> {},
     has_order |-> FALSE, rows |-> [i \in 1..n |-> FreshRow(i, 0)]]
\* The __row_order columns of the uploaded files that carry one: a repeated
\* value, and values out of row order.
OwnOrderColumns == {<<1, 1>>, <<2, 1>>}
OwnOrderTables ==
    {[i \in 1..Len(os) |-> FreshRow(i, os[i])] : os \in OwnOrderColumns}

\* A CSV file of one row that already has a tag set and no flag.
TaggedFile ==
    [name |-> "data.csv", parses |-> TRUE, sheet_names |-> {},
     has_order |-> FALSE,
     rows |-> <<[FreshRow(1, 0) EXCEPT !.tags[1] = 1]>>]

\* A CSV file the parser rejects.
BadCsv ==
    [name |-> "data.csv", parses |-> FALSE, sheet_names |-> {},
     has_order |-> FALSE, rows |-> <<>>]

\* The files the operator may drop on the uploader.
Files ==
    {PlainFile(n) : n \in 0..MaxRows}
    \cup
    {[name |-> "data.csv", parses |-> TRUE, sheet_names |-> {},
      has_order |-> TRUE, rows |-> t] : t \in OwnOrderTables}
    \cup
    {BadCsv, TaggedFile,
     [name |-> "book.xlsx", parses |-> FALSE, sheet_names |-> {},
      has_order |-> FALSE, rows |-> <<>>],
     [name |-> "book.xlsx", parses |-> TRUE, sheet_names |-> {"Sheet1"},
      has_order |-> FALSE, rows |-> <<FreshRow(1, 0)>>],
     [name |-> "book.xlsx", parses |-> TRUE, sheet_names |-> {"Sheet1", "Results"},
      has_order |-> FALSE, rows |-> <<FreshRow(1, 0)>>]}

\* The file the operator may put in place of the one already loaded.
ReplacementFiles == {PlainFile(1)}

\* The files of the end-to-end scenario: a 3-record table with no order
\* column (besides a file that fails to load and the replacement file).
ScenarioFiles == {PlainFile(3), BadCsv} \cup ReplacementFiles

\* ----------------------------------------------------------------- state
VARIABLES
    uploaded,          \* the file in the sidebar uploader, or None
    df,                \* st.session_state.df: None or Some(sequence of records)
    view_idx,          \* st.session_state.view_idx
    filter_unlabeled,  \* st.session_state.filter_unlabeled
    staged,            \* st.session_state.staged: None or Some(buffer)
    allow_ack,         \* value of the "allow export anyway" check box
    load_error,        \* the last run showed "Failed to load data"
    web,               \* the text handed to normalize_url
    web_url            \* the results of normalize_url, in the order of the calls

vars == <<uploaded, df, view_idx, filter_unlabeled, staged, allow_ack,
          load_error, web, web_url>>

\* --------------------------------------------------------------- helpers
IsCsv(file) == file.name = "data.csv"

\* A load_input that reads a workbook whatever its sheets are called.
LoadSucceedsAnySheet(file) == file.parses

\* load_input succeeds: the parser accepts the file and, for a workbook, the
\* sheet 'Results' exists.
LoadSucceeds(file) ==
    /\ file.parses
    /\ IsCsv(file) \/ "Results" \in file.sheet_names

\* Stable insertion of record r into the order-sorted sequence s: after every
\* record whose order is not larger.
RECURSIVE InsertStable(_, _)
InsertStable(s, r) ==
    IF s = <<>> THEN <<r>>
    ELSE IF s[Len(s)].order <= r.order THEN Append(s, r)
    ELSE Append(InsertStable(SubSeq(s, 1, Len(s) - 1), r), s[Len(s)])

RECURSIVE SortStable(_)
SortStable(s) ==
    IF s = <<>> THEN <<>>
    ELSE InsertStable(SortStable(SubSeq(s, 1, Len(s) - 1)), s[Len(s)])

\* An ensure_order that assigns the column but leaves the rows as the file
\* had them.
ensure_order_unsorted(file) ==
    LET rows == file.rows
    IN IF file.has_order THEN rows
       ELSE [i \in 1..Len(rows) |-> [rows[i] EXCEPT !.order = i]]

\* ensure_order: assign 1..N when the column is absent, then stable sort.
ensure_order(file) ==
    LET rows == file.rows
        withOrder == IF file.has_order THEN rows
                     ELSE [i \in 1..Len(rows) |-> [rows[i] EXCEPT !.order = i]]
    IN SortStable(withOrder)

\* init_staged_state: a blank buffer bound to order_val.
init_staged_state(order_val) ==
    [order |-> order_val, flag |-> "None",
     tags |-> [c \in TAG_COLS |-> FALSE], notes |-> ""]

\* df[TAG_COLS].sum(axis=1) for one record.
SumTags(rec) ==
    rec.tags[1] + rec.tags[2] + rec.tags[3] + rec.tags[4] + rec.tags[5]
    + rec.tags[6] + rec.tags[7] + rec.tags[8] + rec.tags[9] + rec.tags[10]

\* An unlabeled_mask that looks at the tags alone.
unlabeled_mask_tags_only(rec) == SumTags(rec) = 0

\* unlabeled_mask for one record.
unlabeled_mask(rec) == SumTags(rec) = 0 /\ rec.flag = NA

\* remaining: the unlabeled records of the whole dataset.
remaining(d) == Cardinality({i \in 1..Len(d) : unlabeled_mask(d[i])})

\* view: the filtered, re-indexed projection.
ViewOf(d, fu) == IF fu THEN SelectSeq(d, unlabeled_mask) ELSE d

\* real_pos: the first dataset position whose order equals the row's.
real_pos(d, row) ==
    CHOOSE i \in 1..Len(d) :
        /\ d[i].order = row.order
        /\ \A j \in 1..(i - 1) : d[j].order # row.order

Min(a, b) == IF a < b THEN a ELSE b
Max(a, b) == IF a > b THEN a ELSE b

\* Which screen a run ends on: the upload prompt (st.stop at line 153), the
\* "all records are labeled" screen (st.stop at line 168) or a record panel.
Screen(d, fu) ==
    IF d = None THEN "upload"
    ELSE IF Len(ViewOf(d[1], fu)) = 0 THEN "all_labeled"
    ELSE "record"

\* A load step that runs whenever a file is in the uploader.
ShouldLoadAlways(up, d) == up # None

\* The load step runs only while the session holds no dataset.
ShouldLoad(up, d) == up # None /\ d = None

\* A cursor check that never resets.
ClampIdxNever(vi, n) == vi

\* Lines 170-173: a cursor past the end of the view is reset to 0.
ClampIdx(vi, n) == IF vi >= n THEN 0 ELSE vi

\* view.iloc[idx] exists (a negative idx counts from the end).
InRange(view, idx) == -Len(view) <= idx /\ idx < Len(view)
iloc(view, idx) == IF idx < 0 THEN view[Len(view) + idx + 1] ELSE view[idx + 1]

\* Lines 117-180 of one script run: load, view, cursor check, buffer binding.
\* The result is the session state the rest of the run sees; panel tells
\* whether the run goes on to draw the record panel (it does not after
\* st.stop(), nor when view.iloc[idx] raises IndexError).
ScriptTop(up, d, vi, fu, sg) ==
    LET tryLoad == ShouldLoad(up, d)
        d1 == IF tryLoad /\ LoadSucceeds(up[1]) THEN Some(ensure_order(up[1])) ELSE d
        err == tryLoad /\ ~LoadSucceeds(up[1])
    IN IF Screen(d1, fu) # "record"
       THEN [df |-> d1, view_idx |-> vi, staged |-> sg, load_error |-> err,
             panel |-> FALSE]
       ELSE LET view == ViewOf(d1[1], fu)
                idx == ClampIdx(vi, Len(view))
            IN IF ~InRange(view, idx)
               THEN [df |-> d1, view_idx |-> idx, staged |-> sg,
                     load_error |-> err, panel |-> FALSE]
               ELSE LET row == iloc(view, idx)
                        sg1 == IF sg = None \/ sg[1].order # row.order
                               THEN Some(init_staged_state(row.order))
                               ELSE sg
                    IN [df |-> d1, view_idx |-> idx, staged |-> sg1,
                        load_error |-> err, panel |-> TRUE]

\* The record panel is on display in the current state.
PanelShown ==
    /\ Screen(df, filter_unlabeled) = "record"
    /\ InRange(ViewOf(df[1], filter_unlabeled), view_idx)
    /\ staged # None

\* The record on display (record panel only).
RowOf(d, vi, fu) == iloc(ViewOf(d[1], fu), vi)

\* A Save button that is never disabled.
save_disabled_never(sg) == FALSE

\* save_disabled: the Save button is disabled until Y or N is chosen.
save_disabled(sg) == sg.flag = "None"

\* A commit that leaves the notes column alone.
CommitWithoutNotes(d, pos, sg) ==
    [d EXCEPT ![pos] =
        [@ EXCEPT !.flag = IF sg.flag = "True" THEN "Y" ELSE "N",
                  !.tags = [c \in TAG_COLS |-> IF sg.tags[c] THEN 1 ELSE 0]]]

\* A commit that stores the choice N as a missing flag.
CommitNoAsUnset(d, pos, sg) ==
    [d EXCEPT ![pos] =
        [@ EXCEPT !.flag = IF sg.flag = "True" THEN "Y" ELSE NA,
                  !.tags = [c \in TAG_COLS |-> IF sg.tags[c] THEN 1 ELSE 0],
                  !.notes = sg.notes]]

\* Lines 272-275: the staged edits written to the record at pos.
Commit(d, pos, sg) ==
    [d EXCEPT ![pos] =
        [@ EXCEPT !.flag = IF sg.flag = "True" THEN "Y" ELSE "N",
                  !.tags = [c \in TAG_COLS |-> IF sg.tags[c] THEN 1 ELSE 0],
                  !.notes = sg.notes]]

\* An export section that never asks for the acknowledgement.
allow_export_always(d, ack) == TRUE

\* Lines 282-286: the export section's allow_export.
allow_export(d, ack) == IF remaining(d) > 0 THEN ack ELSE TRUE

\* The acknowledgement check box is drawn only by a run that reaches line 284
\* with remaining > 0.
AckDrawn(d, fu) == Screen(d, fu) = "record" /\ remaining(d[1]) > 0

\* The download button of the screen on display is enabled.
DownloadEnabled(d, fu, ack) ==
    \/ Screen(d, fu) = "all_labeled"
    \/ Screen(d, fu) = "record" /\ allow_export(d[1], ack)

\* A cell of the CSV text: a missing value is written as the empty text.
Cell(v) == IF v = NA THEN "" ELSE v

\* df.to_csv(index=False): one line per record, in dataset order, one cell per
\* column.
to_csv(d) ==
    [i \in 1..Len(d) |->
        [company |-> d[i].company, order |-> d[i].order,
         flag |-> Cell(d[i].flag), tags |-> d[i].tags,
         notes |-> Cell(d[i].notes)]]

\* ---------------------------------------------------------------- Init
SessionInit ==
    /\ uploaded = None
    /\ df = None
    /\ view_idx = 0
    /\ filter_unlabeled = TRUE
    /\ staged = None
    /\ allow_ack = FALSE
    /\ load_error = FALSE

\* A session that has drawn no website link yet.
Init ==
    /\ SessionInit
    /\ web = <<>>
    /\ web_url = <<>>

\* The session state after a complete run that started from the given one.
\* A check box that a run does not draw loses its value.
Settle(up, d, vi, fu, sg, ack) ==
    LET r == ScriptTop(up, d, vi, fu, sg)
    IN /\ df' = r.df
       /\ view_idx' = r.view_idx
       /\ staged' = r.staged
       /\ load_error' = r.load_error
       /\ allow_ack' = (ack /\ AckDrawn(r.df, fu))
       /\ UNCHANGED <<web, web_url>>

\* --------------------------------------------------------------- actions
\* The operator puts a file into the uploader (or replaces the one there).
Upload(f) ==
    /\ uploaded # Some(f)
    /\ df = None \/ f \in ReplacementFiles
    /\ uploaded' = Some(f)
    /\ filter_unlabeled' = filter_unlabeled
    /\ Settle(Some(f), df, view_idx, filter_unlabeled, staged, allow_ack)

\* The "show only unlabeled" check box.
ToggleFilter ==
    /\ df # None
    /\ filter_unlabeled' = ~filter_unlabeled
    /\ UNCHANGED uploaded
    /\ Settle(uploaded, df, view_idx, ~filter_unlabeled, staged, allow_ack)

\* Lines 150-153, 164-168, 170-180: the state the widgets of the record panel
\* see in the current run.
ThisRun == ScriptTop(uploaded, df, view_idx, filter_unlabeled, staged)

\* A widget of the classification column has returned a new value: the run
\* r has bound the buffer (lines 170-180) and stores the edited buffer sg.
StageEdit(r, sg) ==
    /\ staged' = Some(sg)
    /\ staged' # staged
    /\ df' = r.df
    /\ view_idx' = r.view_idx
    /\ load_error' = r.load_error
    /\ allow_ack' = (allow_ack /\ AckDrawn(r.df, filter_unlabeled))
    /\ UNCHANGED <<uploaded, filter_unlabeled, web, web_url>>

\* Lines 219-222: the radio's choice stored as None / True / False.
FlagOfChoice(cs_choice) ==
    IF cs_choice = "(select)" THEN "None"
    ELSE IF cs_choice = "Y" THEN "True" ELSE "False"

\* Lines 212-222.
SetFlag(cs_choice) ==
    /\ ThisRun.panel
    /\ StageEdit(ThisRun, [ThisRun.staged[1] EXCEPT !.flag = FlagOfChoice(cs_choice)])

\* Lines 232-236 and 243-247.
ToggleTag(c) ==
    /\ ThisRun.panel
    /\ StageEdit(ThisRun, [ThisRun.staged[1] EXCEPT !.tags[c] = ~@])

\* Lines 249-251.
SetNotes(text) ==
    /\ ThisRun.panel
    /\ StageEdit(ThisRun, [ThisRun.staged[1] EXCEPT !.notes = text])

\* A button handler ends in st.rerun() before the export section is reached:
\* the run that handles the click does not draw the acknowledgement check box,
\* and whether the toolkit keeps its value for the next run is not decided by
\* the script.  Both outcomes are allowed.
AckAfterRerun(ack) == {ack, FALSE}

\* The state a button handler leaves (new cursor, buffer dropped, dataset d)
\* followed by the run that st.rerun() starts.
RerunAfterButton(d, vi) ==
    \E ack \in AckAfterRerun(allow_ack) :
        /\ Settle(uploaded, d, vi, filter_unlabeled, None, ack)
        /\ UNCHANGED <<uploaded, filter_unlabeled>>

\* A Prev that moves the cursor and keeps the staged edits.
PrevKeepingBuffer ==
    LET r == ScriptTop(uploaded, df, view_idx, filter_unlabeled, staged)
    IN /\ r.panel
       /\ \E ack \in AckAfterRerun(allow_ack) :
             /\ Settle(uploaded, r.df, Max(0, r.view_idx - 1), filter_unlabeled,
                       r.staged, ack)
             /\ UNCHANGED <<uploaded, filter_unlabeled>>

\* Lines 256-259.
Prev ==
    LET r == ScriptTop(uploaded, df, view_idx, filter_unlabeled, staged)
    IN /\ r.panel
       /\ RerunAfterButton(r.df, Max(0, r.view_idx - 1))

\* A Skip that writes the staged edits to the record before moving on.
SkipCommitting ==
    LET r == ScriptTop(uploaded, df, view_idx, filter_unlabeled, staged)
        view == ViewOf(r.df[1], filter_unlabeled)
        pos == real_pos(r.df[1], iloc(view, r.view_idx))
    IN /\ r.panel
       /\ RerunAfterButton(Some(Commit(r.df[1], pos, r.staged[1])),
                           Min(Len(view) - 1, r.view_idx + 1))

\* Lines 261-264.
Skip ==
    LET r == ScriptTop(uploaded, df, view_idx, filter_unlabeled, staged)
        view == ViewOf(r.df[1], filter_unlabeled)
    IN /\ r.panel
       /\ RerunAfterButton(r.df, Min(Len(view) - 1, r.view_idx + 1))

\* Lines 266-278.
Save ==
    LET r == ScriptTop(uploaded, df, view_idx, filter_unlabeled, staged)
        view == ViewOf(r.df[1], filter_unlabeled)
        row == iloc(view, r.view_idx)
        pos == real_pos(r.df[1], row)
    IN /\ r.panel
       /\ ~save_disabled(r.staged[1])
       /\ RerunAfterButton(Some(Commit(r.df[1], pos, r.staged[1])),
                           Min(Len(view) - 1, r.view_idx + 1))

\* Line 284: the "I understand - allow export anyway" check box.
ToggleAck ==
    /\ AckDrawn(df, filter_unlabeled)
    /\ allow_ack' = ~allow_ack
    /\ UNCHANGED <<uploaded, df, view_idx, filter_unlabeled, staged, load_error,
                   web, web_url>>

\* Lines 166-167 and 288-289: a click on an enabled download button delivers
\* csv_bytes, which the run that drew the button computed from df; the session
\* state is not touched.
\* An export of the records on view instead of the dataset.
csv_bytes_of_view == to_csv(ViewOf(df[1], filter_unlabeled))

csv_bytes == to_csv(df[1])

Export ==
    /\ DownloadEnabled(df, filter_unlabeled, allow_ack)
    /\ UNCHANGED vars

\* The operator removes a file that failed to load from the uploader.
ClearUpload ==
    /\ uploaded # None
    /\ df = None
    /\ uploaded' = None
    /\ filter_unlabeled' = filter_unlabeled
    /\ Settle(None, df, view_idx, filter_unlabeled, staged, allow_ack)

NextWith(files) ==
    \/ \E f \in files : Upload(f)
    \/ ClearUpload
    \/ ToggleFilter
    \/ \E cs_choice \in RadioOptions : SetFlag(cs_choice)
    \/ \E c \in ToggledTags : ToggleTag(c)
    \/ \E text \in NoteTexts : SetNotes(text)
    \/ Prev
    \/ Skip
    \/ Save
    \/ ToggleAck
    \/ Export

Next == NextWith(Files)

Spec == Init /\ [][Next]_vars

\* The end-to-end scenario: the same program, the operator uploading the
\* 3-record table.
NextScenario == NextWith(ScenarioFiles)

SpecScenario == Init /\ [][NextScenario]_vars

\* ------------------------------------------------------- normalize_url
\* A text is the sequence of its characters; a character outside ASCII is
\* written as its code point.  SENTINEL is the literal of lines 79 and 82 as
\* the source file holds it (three characters); EM_DASH is the em dash.
SENTINEL == <<"U+201A", "U+00C4", "U+00EE">>
EM_DASH == <<"U+2014">>
HTTP == <<"h", "t", "t", "p", ":", "/", "/">>
HTTPS == <<"h", "t", "t", "p", "s", ":", "/", "/">>

\* str.lower, character by character.
LowerChar(c) ==
    CASE c = "H" -> "h"
      [] c = "T" -> "t"
      [] c = "P" -> "p"
      [] c = "S" -> "s"
      [] c = "U+00C4" -> "U+00E4"
      [] OTHER -> c
lower(s) == [i \in 1..Len(s) |-> LowerChar(s[i])]

\* str.strip: leading and trailing white space removed.
IsSpace(c) == c = " "
RECURSIVE lstrip(_)
lstrip(s) == IF s # <<>> /\ IsSpace(Head(s)) THEN lstrip(Tail(s)) ELSE s
RECURSIVE rstrip(_)
rstrip(s) ==
    IF s # <<>> /\ IsSpace(s[Len(s)]) THEN rstrip(SubSeq(s, 1, Len(s) - 1))
    ELSE s
strip(s) == rstrip(lstrip(s))

startswith(s, prefix) ==
    Len(s) >= Len(prefix) /\ SubSeq(s, 1, Len(prefix)) = prefix

\* Lines 81-87.
normalize_url(url) ==
    IF url = <<>> \/ url = SENTINEL THEN <<>>
    ELSE LET u == strip(url)
         IN IF ~(startswith(lower(u), HTTP) \/ startswith(lower(u), HTTPS))
            THEN HTTPS \o u
            ELSE u

\* The texts handed to normalize_url: white space or none, a scheme in some
\* letter case or none, a host or a dash or nothing, white space or none.
Paddings == {<<>>, <<" ">>}
Schemes ==
    {<<>>, HTTP, HTTPS,
     <<"H", "T", "T", "P", ":", "/", "/">>,
     <<"H", "t", "t", "p", "s", ":", "/", "/">>}
Bodies == {<<>>, <<"x">>, SENTINEL, EM_DASH}
UrlInputs ==
    {p1 \o sc \o b \o p2 :
        p1 \in Paddings, sc \in Schemes, b \in Bodies, p2 \in Paddings}

\* normalize_url applied to a text, then to its own result.
InitUrl ==
    /\ SessionInit
    /\ web \in UrlInputs
    /\ web_url = <<>>

NormalizeUrl ==
    /\ web_url = <<>>
    /\ web_url' = <<normalize_url(web)>>
    /\ UNCHANGED <<uploaded, df, view_idx, filter_unlabeled, staged, allow_ack,
                   load_error, web>>

NormalizeAgain ==
    /\ Len(web_url) = 1
    /\ web_url' = Append(web_url, normalize_url(web_url[1]))
    /\ UNCHANGED <<uploaded, df, view_idx, filter_unlabeled, staged, allow_ack,
                   load_error, web>>

NextUrl == NormalizeUrl \/ NormalizeAgain

SpecUrl == InitUrl /\ [][NextUrl]_vars

\* ================================================================ claims
\* The buffer, the view and the record of the record panel on display.
Buffer == staged[1]
CurView == ViewOf(df[1], filter_unlabeled)
Displayed == RowOf(df, view_idx, filter_unlabeled)
TargetPos == real_pos(df[1], Displayed)

\* The staged flag is unset on the record panel.
FlagUnset == PanelShown /\ Buffer.flag = "None"

\* C1: while the staged flag is unset (never chosen, or set back to
\* "(select)"), no step is a Save and no step changes any record of the
\* dataset, whatever tags and notes are staged.
C1_SaveRejectedWhileUnset ==
    [][FlagUnset => (~Save /\ df' = df)]_vars

\* C1 witness: the panel shows an unset flag while a tag and notes are staged.
C1_Witness ==
    /\ FlagUnset
    /\ Buffer.tags[1]
    /\ Buffer.notes = "a"

\* A record as the loader made it: no Save has written it.
Untouched(rec) ==
    rec.flag = NA /\ rec.notes = NA /\ \A c \in TAG_COLS : rec.tags[c] \in {0, 1}
\* A record that a Save has written in full.
FullyWritten(rec) ==
    /\ rec.flag \in {"Y", "N"}
    /\ rec.notes \in NoteTexts
    /\ \A c \in TAG_COLS : rec.tags[c] \in {0, 1}

\* What a Save step does to the record it targets.
SaveCommitsBuffer ==
    LET rec == df'[1][TargetPos]
    IN /\ Buffer.flag \in {"True", "False"}
       /\ Buffer.flag = "True" => rec.flag = "Y"
       /\ Buffer.flag = "False" => rec.flag = "N"
       /\ \A c \in TAG_COLS : rec.tags[c] = IF Buffer.tags[c] THEN 1 ELSE 0
       /\ rec.notes = Buffer.notes

\* C2: a Save writes the whole buffer to the target record (flag exactly "Y"
\* or "N", every tag exactly 1 or 0, the notes verbatim), whatever the record
\* held, and no reachable state holds a record written only in part.
C2_SaveCommitsWholeBuffer ==
    /\ [][Save => SaveCommitsBuffer]_vars
    /\ [](df # None =>
            \A i \in 1..Len(df[1]) : Untouched(df[1][i]) \/ FullyWritten(df[1][i]))

\* C2 witness: one record saved as Y with a tag and a note, another saved as
\* N with no tag and the empty note.
C2_Witness ==
    /\ df # None
    /\ \E i, j \in 1..Len(df[1]) :
        /\ df[1][i].flag = "Y" /\ df[1][i].tags[1] = 1 /\ df[1][i].notes = "a"
        /\ df[1][j].flag = "N" /\ df[1][j].tags[1] = 0 /\ df[1][j].notes = ""

\* The step writes the displayed record, identified by its display fields,
\* and nothing else: every other record keeps all its fields, every record
\* keeps its order value and display fields.
WritesOnlyDisplayed ==
    LET d == df[1]
        e == df'[1]
    IN /\ Len(e) = Len(d)
       /\ \A i \in 1..Len(d) :
            /\ e[i].order = d[i].order
            /\ e[i].company = d[i].company
            /\ d[i].company # Displayed.company => e[i] = d[i]
            /\ d[i].company = Displayed.company =>
                  e[i].flag = (IF Buffer.flag = "True" THEN "Y" ELSE "N")

\* C3 (as claimed): for every dataset the loader accepts, in both views, the
\* one record a Save modifies is the record on display; all other records and
\* all order values and display fields are unchanged.
C3_SaveWritesDisplayedRecord ==
    [][Save => WritesOnlyDisplayed]_vars

\* C4: Skip changes no record (whatever was staged), leaves the remaining
\* count as it was, moves the cursor to min(len(view)-1, cursor+1) and leaves
\* a blank buffer for the record then on display.
C4_SkipCommitsNothing ==
    [][Skip =>
        /\ df' = df
        /\ remaining(df'[1]) = remaining(df[1])
        /\ view_idx' = Min(Len(CurView) - 1, view_idx + 1)
        /\ staged' = Some(init_staged_state(iloc(CurView, view_idx').order))]_vars

\* C4 witness: in the unlabeled-only view the cursor stands on the second
\* record while no record of the dataset has been written: the first record
\* was skipped.
C4_Witness ==
    /\ PanelShown
    /\ filter_unlabeled
    /\ view_idx = 1
    /\ Len(df[1]) = 2
    /\ \A i \in 1..Len(df[1]) : Untouched(df[1][i])

\* C5 (as claimed): a Save of a displayed record that was unlabeled lowers
\* the remaining count by exactly one, in either view and whatever tags are
\* staged; a Skip leaves the count as it was.
C5_RemainingDropsByOne ==
    [][/\ (Save /\ unlabeled_mask(Displayed)) =>
              remaining(df'[1]) = remaining(df[1]) - 1
       /\ Skip => remaining(df'[1]) = remaining(df[1])]_vars

\* C6: wherever a download button is enabled, either nothing remains to be
\* labeled or the acknowledgement is ticked (on the "all labeled" screen and
\* in the export section alike); with nothing remaining the download is
\* always enabled; ticking or clearing the acknowledgement changes no record.
C6_ExportGated ==
    /\ [](DownloadEnabled(df, filter_unlabeled, allow_ack) =>
            remaining(df[1]) = 0 \/ allow_ack)
    /\ []((df # None /\ remaining(df[1]) = 0) =>
            DownloadEnabled(df, filter_unlabeled, allow_ack))
    /\ [][ToggleAck => df' = df]_vars

\* C6 witness: records remain unlabeled, the acknowledgement is ticked and the
\* download button of the export section is enabled.
C6_Witness ==
    /\ PanelShown
    /\ remaining(df[1]) > 0
    /\ allow_ack
    /\ DownloadEnabled(df, filter_unlabeled, allow_ack)

\* C7 (as claimed): in the unlabeled-only view, after a Save of the record at
\* cursor position i with a record at position i+1, the record displayed next
\* is that record.
C7_SaveShowsNextUnlabeled ==
    [][(Save /\ filter_unlabeled /\ view_idx + 1 < Len(CurView)) =>
          /\ Screen(df', filter_unlabeled') = "record"
          /\ RowOf(df', view_idx', filter_unlabeled') = CurView[view_idx + 2]]_vars

\* A step that only re-renders: no button of the record panel is pressed.
RerenderOnly ==
    \/ ToggleFilter
    \/ ToggleAck
    \/ Export
    \/ \E f \in Files : Upload(f)

\* C8 (as claimed): on the record panel the buffer is bound to the order of
\* the displayed record; whenever a step changes which record is displayed,
\* the buffer it leaves is blank; a re-render that displays the same record
\* leaves the buffer as it was.
C8_BufferBelongsToDisplayed ==
    /\ [](PanelShown => Buffer.order = Displayed.order)
    /\ [][(PanelShown /\ PanelShown') =>
            LET now == RowOf(df', view_idx', filter_unlabeled')
            IN /\ now.company # Displayed.company =>
                    staged' = Some(init_staged_state(now.order))
               /\ (RerenderOnly /\ now.company = Displayed.company) =>
                    staged' = staged]_vars

\* C9: whenever a record is displayed, the cursor that selects it, which is
\* the cursor the session holds after the render, lies in 0..len(view)-1.
C9_CursorInView ==
    Screen(df, filter_unlabeled) = "record" =>
        (0 <= view_idx /\ view_idx <= Len(CurView) - 1 /\ PanelShown)

\* C9 witness: the unlabeled-only view has shrunk to one record of a
\* two-record dataset whose second record is the unlabeled one, and the
\* cursor stands on it.
C9_Witness ==
    /\ PanelShown
    /\ filter_unlabeled
    /\ Len(df[1]) = 2
    /\ Len(CurView) = 1
    /\ unlabeled_mask(df[1][2])
    /\ view_idx = 0

\* A user event other than Save.
NonSaveEvent ==
    \/ \E cs_choice \in RadioOptions : SetFlag(cs_choice)
    \/ \E c \in ToggledTags : ToggleTag(c)
    \/ \E text \in NoteTexts : SetNotes(text)
    \/ Prev
    \/ Skip
    \/ RerenderOnly

\* C10: once a dataset is loaded no step replaces, reloads or resets it (the
\* uploaded file staying in place, or another one being put there): the
\* dataset keeps its length, a flag once set stays set, and a step that
\* changes a record is a Save and is none of the other events (SetFlag,
\* ToggleTag, SetNotes, Prev, Skip, filter toggle, acknowledgement toggle,
\* export, upload).
C10_DatasetChangedOnlyBySave ==
    [][df # None =>
        /\ df' # None
        /\ Len(df'[1]) = Len(df[1])
        /\ \A i \in 1..Len(df[1]) : df[1][i].flag # NA => df'[1][i].flag # NA
        /\ df' # df => (Save /\ ~NonSaveEvent)]_vars

\* C10 witness: a record of a two-record dataset is labeled while the
\* uploader holds another file than the one the dataset was loaded from.
C10_Witness ==
    /\ df # None
    /\ Len(df[1]) = 2
    /\ df[1][1].flag = "Y"
    /\ uploaded # None
    /\ Len(uploaded[1].rows) = 1

\* ------------------------------------------------------------------ C11
\* The dataset is in ascending order of __row_order, records of equal order in
\* the order of the file's rows.
SortedByOrder(d) ==
    \A i, j \in 1..Len(d) :
        i < j => \/ d[i].order < d[j].order
                 \/ d[i].order = d[j].order /\ d[i].company < d[j].company
\* Every record's order is its position in the file, which is also its
\* position in the dataset: the orders are 1..N by original row position.
OrderIsRowPosition(d) ==
    \A i \in 1..Len(d) : d[i].order = i /\ d[i].company = i
\* A step keeps every record's order and the record it belongs to.
OrderKept ==
    /\ df' # None
    /\ Len(df'[1]) = Len(df[1])
    /\ \A i \in 1..Len(df[1]) :
          /\ df'[1][i].order = df[1][i].order
          /\ df'[1][i].company = df[1][i].company
\* The step that loads a file: every row of the file becomes one record, with
\* order values 1..N by row position when the file has no __row_order column
\* and with the file's own values when it has one.
LoadKeepsOrAssignsOrder ==
    LET file == uploaded'[1]
        d == df'[1]
    IN /\ uploaded' # None
       /\ Len(d) = Len(file.rows)
       /\ {d[i].company : i \in 1..Len(d)} = 1..Len(file.rows)
       /\ ~file.has_order => OrderIsRowPosition(d)
       /\ file.has_order =>
             \A i \in 1..Len(d) : d[i].order = file.rows[d[i].company].order

\* C11 as stated: in every loaded dataset the order values are 1..N by
\* original row position, the dataset is sorted by order ascending, and no
\* step after the load changes a record's order or the record an order
\* belongs to.
C11_OrderIsPermutationByRowPosition ==
    /\ [](df # None => OrderIsRowPosition(df[1]) /\ SortedByOrder(df[1]))
    /\ [][df # None => OrderKept]_vars

\* C11 amended: the order values are 1..N by original row position in every
\* dataset loaded from a file without a __row_order column, a file's own
\* __row_order column is kept as it is; every loaded dataset is sorted by
\* order ascending (equal orders in row order), and no step after the load
\* changes a record's order or the record an order belongs to.
C11_OrderAssignedWhenAbsent ==
    /\ [][(df = None /\ df' # None) => LoadKeepsOrAssignsOrder]_vars
    /\ [](df # None => SortedByOrder(df[1]))
    /\ [][df # None => OrderKept]_vars

\* C11 witness: the file whose own order column is <<2, 1>> is loaded, its
\* second row first, and that record has been saved in the all-records view.
C11_Witness ==
    /\ df # None
    /\ Len(df[1]) = 2
    /\ df[1][1].company = 2 /\ df[1][1].order = 1
    /\ df[1][2].company = 1 /\ df[1][2].order = 2
    /\ df[1][1].flag = "Y"
    /\ ~filter_unlabeled

\* ------------------------------------------------------------------ C12
\* The positions of the dataset whose record has no tag and no flag.
UnlabeledPositions(d) ==
    {i \in 1..Len(d) : d[i].flag = NA /\ \A c \in TAG_COLS : d[i].tags[c] = 0}
\* Sequence v is the records of d at the positions of set keep, in the order
\* of d.
IsProjection(v, d, keep) ==
    /\ Len(v) = Cardinality(keep)
    /\ \E f \in [1..Len(v) -> keep] :
          /\ \A k, l \in 1..Len(v) : k < l => f[k] < f[l]
          /\ \A k \in 1..Len(v) : v[k] = d[f[k]]

\* C12: the view is the filtered projection of the current dataset.  With the
\* filter on it holds exactly the records with no tag and no flag, with the
\* filter off every record, in the dataset's order; a record with flag N and
\* no tags is not in the unlabeled-only view; remaining is the length of the
\* unlabeled-only view; and the record on display is a record of the view of
\* the dataset as it is now.
C12_ViewIsFilteredProjection ==
    df # None =>
        LET d == df[1]
        IN /\ IsProjection(ViewOf(d, TRUE), d, UnlabeledPositions(d))
           /\ ViewOf(d, FALSE) = d
           /\ SortedByOrder(ViewOf(d, TRUE)) /\ SortedByOrder(ViewOf(d, FALSE))
           /\ \A i \in 1..Len(d) :
                 d[i].flag = "N" =>
                    \A k \in 1..Len(ViewOf(d, TRUE)) : ViewOf(d, TRUE)[k] # d[i]
           /\ remaining(d) = Len(ViewOf(d, TRUE))
           /\ PanelShown =>
                 /\ view_idx + 1 \in 1..Len(CurView)
                 /\ Displayed = CurView[view_idx + 1]
                 /\ filter_unlabeled =>
                       /\ Displayed.flag = NA
                       /\ \A c \in TAG_COLS : Displayed.tags[c] = 0

\* C12 witness: the unlabeled-only view is on display and leaves out a record
\* saved with flag N and no tags.
C12_Witness ==
    /\ PanelShown
    /\ filter_unlabeled
    /\ \E i \in 1..Len(df[1]) :
          df[1][i].flag = "N" /\ \A c \in TAG_COLS : df[1][i].tags[c] = 0
    /\ Len(CurView) < Len(df[1])

\* ------------------------------------------------------------------ C13
\* The sources that cannot be loaded: the parser rejects them, or they are a
\* workbook without a sheet called 'Results'.
FailsToLoad(f) ==
    \/ ~f.parses
    \/ f.name = "book.xlsx" /\ "Results" \notin f.sheet_names

\* C13: an upload of a source that cannot be loaded is reported as an error
\* and changes nothing: the session still holds no dataset, the cursor, the
\* filter flag and the buffer are as they were, and no record is displayed.
\* An upload of a source that can be loaded, also after a failed one, loads
\* it: the session holds one record per row, no error is shown and the run
\* leaves the upload prompt.
C13_FailedLoadMutatesNothing ==
    [][\A f \in Files :
          (df = None /\ Upload(f)) =>
              IF FailsToLoad(f)
              THEN /\ load_error'
                   /\ df' = None
                   /\ view_idx' = view_idx
                   /\ filter_unlabeled' = filter_unlabeled
                   /\ staged' = staged
                   /\ Screen(df', filter_unlabeled') = "upload"
              ELSE /\ ~load_error'
                   /\ df' # None
                   /\ Len(df'[1]) = Len(f.rows)
                   /\ Screen(df', filter_unlabeled') # "upload"]_vars

\* C13 witness: a workbook without a 'Results' sheet is in the uploader, the
\* error is on screen and the session holds no dataset.
C13_Witness ==
    /\ uploaded # None
    /\ uploaded[1].name = "book.xlsx"
    /\ uploaded[1].parses
    /\ load_error
    /\ df = None
    /\ staged = None
    /\ view_idx = 0

\* ------------------------------------------------------------------ C14
\* The text is empty, white space only, or the placeholder of get_or_blank.
BlankOrPlaceholder(x) == strip(x) = <<>> \/ x = SENTINEL
\* The text carries an http:// or https:// scheme, in any letter case.
HasScheme(x) == startswith(lower(x), HTTP) \/ startswith(lower(x), HTTPS)

\* C14: normalize_url returns the empty text for every blank or placeholder
\* input (empty, white space only, the sentinel); for every other input it
\* returns the trimmed text, with 'https://' put before it when it has no
\* http:// or https:// scheme in any letter case and as it is when it has one;
\* and normalize_url of a result is that result.
C14_NormalizeUrl ==
    Len(web_url) >= 1 =>
        LET y == web_url[1]
        IN /\ BlankOrPlaceholder(web) => y = <<>>
           /\ ~BlankOrPlaceholder(web) =>
                 IF HasScheme(strip(web)) THEN y = strip(web)
                 ELSE y = HTTPS \o strip(web)
           /\ Len(web_url) = 2 => web_url[2] = y

\* ------------------------------------------------------------------ C15
\* The export holds one line per record of the dataset, in the dataset's
\* order, with the record's order value and its committed flag, tags and
\* notes (a missing flag or note as an empty cell).
ExportIsDataset ==
    LET d == df[1]
    IN /\ Len(csv_bytes) = Len(d)
       /\ \A i \in 1..Len(d) :
             /\ csv_bytes[i].company = d[i].company
             /\ csv_bytes[i].order = d[i].order
             /\ csv_bytes[i].flag = (IF d[i].flag = NA THEN "" ELSE d[i].flag)
             /\ csv_bytes[i].tags = d[i].tags
             /\ csv_bytes[i].notes = (IF d[i].notes = NA THEN "" ELSE d[i].notes)
       /\ \A i, j \in 1..Len(d) : i < j => csv_bytes[i].order <= csv_bytes[j].order

\* C15: the export is the whole dataset as committed, one line per record in
\* ascending order, unlabeled records and the order column included; a step
\* that leaves the dataset alone (a filter toggle, a cursor move, an edit of
\* the buffer) leaves the export as it was.
C15_ExportIsCommittedDataset ==
    /\ [](df # None => ExportIsDataset)
    /\ [][(df # None /\ df' = df) => csv_bytes' = csv_bytes]_vars

\* C15 witness: the download button is enabled in the unlabeled-only view
\* while a record is saved as Y with a note, the record on display is
\* unlabeled and a flag and a tag are staged for it.
C15_Witness ==
    /\ PanelShown
    /\ filter_unlabeled
    /\ DownloadEnabled(df, filter_unlabeled, allow_ack)
    /\ \E i \in 1..Len(df[1]) : df[1][i].flag = "Y" /\ df[1][i].notes = "a"
    /\ Displayed.flag = NA
    /\ Buffer.flag = "True"
    /\ Buffer.tags[1]

\* ------------------------------------------------------------------ C16
\* What a step does to the labels of a loaded dataset: the number of
\* unlabeled records does not grow, a flag that is set stays Y or N, and a
\* record that is not unlabeled does not become unlabeled.
LabelsOnlyGrow ==
    /\ df' # None
    /\ Len(df'[1]) = Len(df[1])
    /\ remaining(df'[1]) <= remaining(df[1])
    /\ UnlabeledPositions(df'[1]) \subseteq UnlabeledPositions(df[1])
    /\ \A i \in 1..Len(df[1]) :
          df[1][i].flag # NA => df'[1][i].flag \in {"Y", "N"}

\* C16: labeling is monotone.  On every step remaining does not increase and
\* no record with a flag loses it or becomes unlabeled again; a Save leaves
\* the record it writes with flag Y or N, also when it is saved once more
\* from the all-records view with every tag cleared.
C16_LabelingIsMonotone ==
    /\ [][df # None => LabelsOnlyGrow]_vars
    /\ [][Save => df'[1][TargetPos].flag \in {"Y", "N"}]_vars

\* C16 witness: the all-records view is on, one record is still unlabeled
\* and another holds flag N with every tag cleared and the empty note, as a
\* Save (a first one or a repeated one) leaves it.
C16_Witness ==
    /\ df # None
    /\ ~filter_unlabeled
    /\ remaining(df[1]) = 1
    /\ \E i \in 1..Len(df[1]) :
          /\ df[1][i].flag = "N"
          /\ \A c \in TAG_COLS : df[1][i].tags[c] = 0
          /\ df[1][i].notes = ""

\* ------------------------------------------------------------------ C17
\* What a Save in the unlabeled-only view leads to: one unlabeled record
\* fewer; when none is left, the "all records are labeled" screen with the
\* download enabled; otherwise a record panel on an unlabeled record.
SaveLabelsOneMore ==
    /\ remaining(df'[1]) = remaining(df[1]) - 1
    /\ remaining(df'[1]) = 0 =>
          /\ Screen(df', filter_unlabeled') = "all_labeled"
          /\ DownloadEnabled(df', filter_unlabeled', allow_ack')
    /\ remaining(df'[1]) > 0 =>
          /\ PanelShown'
          /\ Displayed'.flag = NA

\* C17: in the unlabeled-only view every Save labels one more record, so that
\* after as many Saves as there were unlabeled records nothing remains, the
\* view is empty and the "all records are labeled" screen offers the
\* download; until then a Save leaves an unlabeled record on display.
C17_SavesLabelEveryRecord ==
    [][(Save /\ filter_unlabeled) => SaveLabelsOneMore]_vars

\* ------------------------------------------------------------------ C18
\* After the step the same view is on screen and the buffer is a blank one
\* for the record now on display: nothing staged before the step is left.
SameViewBlankBuffer ==
    /\ df' = df
    /\ filter_unlabeled' = filter_unlabeled
    /\ PanelShown'
    /\ staged' = Some([order |-> Displayed'.order, flag |-> "None",
                       tags |-> [c \in TAG_COLS |-> FALSE], notes |-> ""])
\* Prev away from the first record moves one record back, to a cursor from
\* which Skip does not saturate and shows the record displayed before; Prev
\* at the first record stays there.
PrevStep ==
    /\ SameViewBlankBuffer
    /\ IF view_idx > 0
       THEN /\ view_idx' = view_idx - 1
            /\ view_idx' < Len(CurView') - 1
            /\ CurView'[(view_idx' + 1) + 1] = Displayed
       ELSE /\ view_idx' = view_idx
            /\ Displayed' = Displayed
\* Skip away from the last record moves one record on, to a cursor from which
\* Prev does not saturate and shows the record displayed before; Skip at the
\* last record stays there.
SkipStep ==
    /\ SameViewBlankBuffer
    /\ IF view_idx < Len(CurView) - 1
       THEN /\ view_idx' = view_idx + 1
            /\ view_idx' > 0
            /\ CurView'[(view_idx' - 1) + 1] = Displayed
       ELSE /\ view_idx' = view_idx
            /\ Displayed' = Displayed

\* C18: Prev and Skip only navigate, undo each other away from the ends of
\* the view and saturate at the ends.  From a cursor above 0 a Prev leads to
\* the cursor from which a Skip shows the same record again; from a cursor
\* below the last a Skip leads to the cursor from which a Prev does; Prev at
\* cursor 0 and Skip at the last cursor leave cursor and record as they are;
\* and each of them leaves a blank buffer, in either view.
C18_PrevSkipInverse ==
    [][(Prev => PrevStep) /\ (Skip => SkipStep)]_vars

\* C18 witness: the cursor is at the last of two records of the all-records
\* view (Skip saturates, Prev can be undone) with a flag, a tag and a note
\* staged.
C18_Witness ==
    /\ PanelShown
    /\ ~filter_unlabeled
    /\ Len(CurView) = 2
    /\ view_idx = 1
    /\ Buffer.flag = "False"
    /\ Buffer.tags[1]
    /\ Buffer.notes = "a"
====
